---- MODULE Spec2Model ----
(***************************************************************************)
(* Locale-resolved static content delivery of the portfolio site:          *)
(* the next-intl request configuration (locale resolver), the readers of   *)
(* site-content.json, the project case-study detail page, the category     *)
(* filter of the projects section, the route surface, the typed-text       *)
(* cycler of the hero and the WhatsApp link of lib/utils.ts.               *)
(***************************************************************************)
EXTENDS Integers, Sequences, FiniteSets, TLC

(***************************************************************************)
(* Bounds of the explored content.                                         *)
(***************************************************************************)
MaxProjects == 2

(***************************************************************************)
(* JavaScript values that the code reads out of the JSON content.          *)
(*   t = "undefined" | "string" | "array" | "object"                       *)
(* s is the text of a string (a tuple of tokens, <<>> for ""), or the name *)
(* of an object; a is the element list of an array.                        *)
(***************************************************************************)
JsUndefined == [t |-> "undefined", s |-> <<>>, a |-> <<>>]

JsString(x) == [t |-> "string", s |-> x, a |-> <<>>]

JsArray(xs) == [t |-> "array", s |-> <<>>, a |-> xs]

JsObject(name) == [t |-> "object", s |-> <<name>>, a |-> <<>>]

\* JavaScript truthiness: undefined and the empty string are falsy,
\* arrays and objects (also empty ones) are truthy.
Truthy(v) == v.t \in {"array", "object"} \/ (v.t = "string" /\ v.s # <<>>)

\* a || b
JsOr(a, b) == IF Truthy(a) THEN a ELSE b

\* obj[key] on a JSON object: undefined when the key is absent.
JsIndex(obj, key) == IF key \in DOMAIN obj THEN obj[key] ELSE JsUndefined

\* Array.prototype.includes on a sequence.
Includes(seq, x) == \E i \in 1..Len(seq) : seq[i] = x

(***************************************************************************)
(* Locales.                                                                *)
(***************************************************************************)
\* An awaited requestLocale that is undefined (no [locale] segment).
NoLocale == "<undefined>"

\* Locale identifiers a request can carry.
LocaleInputs == {NoLocale, "", "en", "es", "pt", "fr"}

\* The languages the README enumerates as supported.
SupportedLanguages == {"en", "es", "pt"}

\* i18n/request.ts: const locales = ["es"]
locales == <<"es">>

\* messages/<locale>.json files that exist in the repository.
MessageFiles == {"en", "es", "pt"}

VARIABLES
    siteContent,    \* site-content.json: locale key -> bundle
    projects,       \* projects.json: the case-study list
    config,         \* result of the last getRequestConfig call
    lookup,         \* result of the last site-content read
    filter,         \* ProjectsSection: selected category
    section,        \* ProjectsSection: what the last render showed
    page,           \* ProjectPage: params and what the last render showed
    route,          \* outcome of the last route request
    whatsapp,       \* result of the last createWhatsAppURL call
    texts,          \* AnimatedText: the texts prop
    cycler,         \* AnimatedText: component state
    timers,         \* AnimatedText: pending setTimeout callbacks
    trace,          \* AnimatedText: what the component has done so far
    lightbox,       \* ProjectPage: gallery, lightbox state, keydown handler
    form            \* ContactSection: form state and its pending timers

vars ==
    <<siteContent, projects, config, lookup, filter, section, page,
      route, whatsapp, texts, cycler, timers, trace, lightbox, form>>

\* The content, the locale configuration and the project views.
siteVars == <<siteContent, projects, config, lookup, filter, section, page>>

\* The typed-text cycler.
cyclerVars == <<texts, cycler, timers, trace>>

\* The lightbox of the detail page and the contact form.
widgetVars == <<lightbox, form>>

(***************************************************************************)
(* 4.1 Locale Resolver: i18n/request.ts getRequestConfig.                  *)
(***************************************************************************)
\* !locale
NotLocale(locale) == locale = NoLocale \/ locale = ""

ResolveLocaleDefaultEn(requestLocale) ==
    IF NotLocale(requestLocale) \/ ~Includes(locales, requestLocale)
    THEN "en"
    ELSE requestLocale

\* if (!locale || !locales.includes(locale)) locale = "es"
ResolveLocale(requestLocale) ==
    IF NotLocale(requestLocale) \/ ~Includes(locales, requestLocale)
    THEN "es"
    ELSE requestLocale

\* The returned request configuration; the dynamic import of
\* messages/<locale>.json rejects when there is no such file.
RequestConfig(requestLocale) ==
    LET locale == ResolveLocale(requestLocale)
    IN  [called        |-> TRUE,
         requestLocale |-> requestLocale,
         locale        |-> locale,
         messages      |-> IF locale \in MessageFiles THEN locale ELSE "",
         error         |-> locale \notin MessageFiles]

NoConfig ==
    [called |-> FALSE, requestLocale |-> NoLocale, locale |-> "",
     messages |-> "", error |-> FALSE]

GetRequestConfig(requestLocale) ==
    /\ config' = RequestConfig(requestLocale)
    /\ UNCHANGED <<siteContent, projects, lookup, filter, section, page>>
    /\ UNCHANGED <<route, whatsapp>>
    /\ UNCHANGED cyclerVars
    /\ UNCHANGED widgetVars

(***************************************************************************)
(* 4.2 Content Repository: the readers of site-content.json.               *)
(***************************************************************************)
\* The locale-keyed part of site-content.json: one bundle per language.
SiteContentJson == [l \in {"en", "es", "pt"} |-> JsObject(l)]

\* Locale segments of a route and values useLocale() is cast from.
RouteLocales == {"en", "es", "pt", "fr"}

\* A property read (bundle.meta, bundle.contact, ...) throws a TypeError
\* when the bundle is undefined.
ReadOf(reader, locale, bundle) ==
    [reader |-> reader, locale |-> locale, bundle |-> bundle,
     error  |-> bundle.t = "undefined"]

\* generateMetadata: siteContent[locale as "es"] || siteContent.es
MetadataLocaleData(content, locale) ==
    JsOr(JsIndex(content, locale), JsIndex(content, "es"))

\* ContactSection: siteContent[locale].contact
ContactLocaleData(content, locale) == JsIndex(content, locale)

\* ServicesSection: siteContent[locale].services.items
ServicesLocaleData(content, locale) == JsIndex(content, locale)

NoLookup ==
    [reader |-> "none", locale |-> "", bundle |-> JsUndefined, error |-> FALSE]

GenerateMetadata(locale) ==
    /\ lookup' = ReadOf("generateMetadata", locale,
                        MetadataLocaleData(siteContent, locale))
    /\ UNCHANGED <<siteContent, projects, config, filter, section, page>>
    /\ UNCHANGED <<route, whatsapp>>
    /\ UNCHANGED cyclerVars
    /\ UNCHANGED widgetVars

ContactSection(locale) ==
    /\ lookup' = ReadOf("ContactSection", locale,
                        ContactLocaleData(siteContent, locale))
    /\ UNCHANGED <<siteContent, projects, config, filter, section, page>>
    /\ UNCHANGED <<route, whatsapp>>
    /\ UNCHANGED cyclerVars
    /\ UNCHANGED widgetVars

ServicesSection(locale) ==
    /\ lookup' = ReadOf("ServicesSection", locale,
                        ServicesLocaleData(siteContent, locale))
    /\ UNCHANGED <<siteContent, projects, config, filter, section, page>>
    /\ UNCHANGED <<route, whatsapp>>
    /\ UNCHANGED cyclerVars
    /\ UNCHANGED widgetVars

(***************************************************************************)
(* Case studies of projects.json.                                          *)
(***************************************************************************)
\* ids/slugs of the case studies, in the order of the JSON list.
Slugs ==
    <<"casa-kala", "pedra-da-lua", "animalist-club",
      "feliz-boipeba", "tap-tap", "casa-laguna">>

\* Category tag lists a case study can carry.
CategoryTags ==
    {<<>>, <<"vacation-rentals">>, <<"branding">>,
     <<"vacation-rentals", "branding">>, <<"paid-ads">>}

\* Languages a case study can be translated into: English only, or all
\* three; the cards read title.en and tagline.en, so the English entry is
\* always there.
Translations == {{"en"}, {"en", "es", "pt"}}

\* A LocalizedValue<string>: one text per translated language.
LocalizedText(slug, field, translated) ==
    [l \in translated |-> JsString(<<slug, field, l>>)]

\* A LocalizedValue<string[]>: one list of bullets per translated language.
LocalizedList(slug, field, translated) ==
    [l \in translated |-> JsArray(<<<<slug, field, l, 1>>, <<slug, field, l, 2>>>>)]

CaseStudy(slug, featured, category, translated) ==
    [id         |-> slug,
     slug       |-> slug,
     featured   |-> featured,
     category   |-> category,
     title      |-> LocalizedText(slug, "title", translated),
     tagline    |-> LocalizedText(slug, "tagline", translated),
     challenge  |-> LocalizedList(slug, "challenge", translated),
     solution   |-> LocalizedList(slug, "strategy.solution", translated),
     conclusion |-> LocalizedText(slug, "results.conclusion", translated)]

\* Lists of n case studies with pairwise distinct slugs.
CaseStudyLists(n, featuredSet, categorySet, translatedSet) ==
    {[i \in 1..n |-> CaseStudy(Slugs[i], c[i][1], c[i][2], c[i][3])] :
        c \in [1..n -> featuredSet \X categorySet \X translatedSet]}

AllCaseStudyLists(featuredSet, categorySet, translatedSet) ==
    UNION {CaseStudyLists(n, featuredSet, categorySet, translatedSet) :
              n \in 0..MaxProjects}

(***************************************************************************)
(* 4.4 Category Filter: ProjectsSection.                                   *)
(***************************************************************************)
\* The filter buttons of the section.
categories == <<"all", "vacation-rentals", "branding">>

Reverse(seq) == [i \in 1..Len(seq) |-> seq[Len(seq) + 1 - i]]

FilteredIgnoringFeatured(ps, f) ==
    IF f = "all"
    THEN ps
    ELSE SelectSeq(ps, LAMBDA p : Includes(p.category, f))

FilteredNewestFirst(ps, f) ==
    IF f = "all"
    THEN Reverse(SelectSeq(ps, LAMBDA p : p.featured))
    ELSE Reverse(SelectSeq(ps, LAMBDA p : p.featured /\ Includes(p.category, f)))

\* filter === "all" ? projects.filter((p) => p.featured)
\*   : projects.filter((p) => p.featured && p.category.includes(filter))
Filtered(ps, f) ==
    IF f = "all"
    THEN SelectSeq(ps, LAMBDA p : p.featured)
    ELSE SelectSeq(ps, LAMBDA p : p.featured /\ Includes(p.category, f))

NoResultsWhenSingle(filtered) == Len(filtered) <= 1

\* {filtered.length === 0 && (<p>No projects found in this category.</p>)}
NoResults(filtered) == Len(filtered) = 0

\* One render of the section: a card (a link to the detail page) per
\* filtered case study, and the "no results" message.
SectionRender(ps, f) ==
    LET filtered == Filtered(ps, f)
    IN  [filtered  |-> filtered,
         cards     |-> [i \in 1..Len(filtered) |-> filtered[i].slug],
         noResults |-> NoResults(filtered)]

SetFilterInPlace(cat) ==
    /\ filter' = cat
    /\ projects' = Filtered(projects, cat)
    /\ section' = SectionRender(projects', cat)
    /\ UNCHANGED <<siteContent, config, lookup, page>>
    /\ UNCHANGED <<route, whatsapp>>
    /\ UNCHANGED cyclerVars
    /\ UNCHANGED widgetVars

\* onClick={() => setFilter(cat.key)} and the re-render that follows.
SetFilter(cat) ==
    /\ filter' = cat
    /\ section' = SectionRender(projects, cat)
    /\ UNCHANGED <<siteContent, projects, config, lookup, page>>
    /\ UNCHANGED <<route, whatsapp>>
    /\ UNCHANGED cyclerVars
    /\ UNCHANGED widgetVars

(***************************************************************************)
(* 4.3 Localized fields on the case-study detail page: ProjectPage.        *)
(***************************************************************************)
TabTypes == {"overview", "challenge", "strategy", "results", "gallery"}

\* tabLabels: one label set per language.
tabLabels == [l \in {"en", "es", "pt"} |-> JsObject(l)]

\* Slugs a detail request can carry.
SlugInputs == {Slugs[i] : i \in 1..MaxProjects} \cup {"nonexistent-project"}

\* projects.find((p) => p.slug === slug): index of the first match, 0 for
\* undefined.
FindOrFirst(ps, slug) ==
    IF \E i \in 1..Len(ps) : ps[i].slug = slug
    THEN CHOOSE i \in 1..Len(ps) :
            /\ ps[i].slug = slug
            /\ \A j \in 1..(i - 1) : ps[j].slug # slug
    ELSE IF Len(ps) > 0 THEN 1 ELSE 0

Find(ps, slug) ==
    IF \E i \in 1..Len(ps) : ps[i].slug = slug
    THEN CHOOSE i \in 1..Len(ps) :
            /\ ps[i].slug = slug
            /\ \A j \in 1..(i - 1) : ps[j].slug # slug
    ELSE 0

\* field[locale as Locale]
Bare(field, locale) == JsIndex(field, locale)

\* field[locale as Locale] || field.en
WithFallback(field, locale) == JsOr(JsIndex(field, locale), JsIndex(field, "en"))

\* value.map(...) throws a TypeError on undefined.
MapThrows(value) == value.t = "undefined"

NoValue == JsUndefined

\* What one render of the page reads and shows.
\*   notFound() throws, nothing below it is evaluated.
PageRender(ps, locale, slug, activeTab) ==
    LET i == Find(ps, slug)
    IN  IF i = 0
        THEN [outcome |-> "notFound", project |-> "", title |-> NoValue,
              tagline |-> NoValue, challenge |-> NoValue, labels |-> NoValue,
              body |-> NoValue]
        ELSE
        LET project   == ps[i]
            title     == Bare(project.title, locale)
            tagline   == Bare(project.tagline, locale)
            challenge == Bare(project.challenge, locale)
            labels    == JsOr(JsIndex(tabLabels, locale), JsIndex(tabLabels, "en"))
            body      == CASE activeTab = "challenge" -> challenge
                           [] activeTab = "strategy" ->
                                WithFallback(project.solution, locale)
                           [] activeTab = "results" ->
                                WithFallback(project.conclusion, locale)
                           [] OTHER -> NoValue
            throws    == activeTab \in {"challenge", "strategy"} /\ MapThrows(body)
        IN  [outcome |-> IF throws THEN "error" ELSE "rendered",
             project |-> project.slug, title |-> title, tagline |-> tagline,
             challenge |-> challenge, labels |-> labels, body |-> body]

MaxImages == 3

\* Image paths of a project's gallery.
GalleryImages ==
    <<"/gallery/1.jpg", "/gallery/2.jpg", "/gallery/3.jpg", "/gallery/4.jpg",
      "/gallery/5.jpg">>

\* const gallery = project.gallery || []
Galleries == {SubSeq(GalleryImages, 1, n) : n \in 0..MaxImages}

\* useState<string | null>(null)
NoImage == "<null>"

\* gallery[i] for a 0-based i, undefined outside the array.
GalleryAt(gallery, i) ==
    IF i >= 0 /\ i < Len(gallery) THEN gallery[i + 1] ELSE NoImage

\* What the keydown listener registered by the effect has captured.
HandlerOf(selectedImage, imageIndex) ==
    [selectedImage |-> selectedImage, imageIndex |-> imageIndex]

\* useState(null), useState(0) and the first run of the effect.
ClosedLightbox(gallery) ==
    [gallery |-> gallery, selectedImage |-> NoImage, imageIndex |-> 0,
     handler |-> HandlerOf(NoImage, 0), log |-> <<>>]

NoPage ==
    [mounted |-> FALSE, locale |-> "", slug |-> "", activeTab |-> "overview",
     view |-> [outcome |-> "none", project |-> "", title |-> NoValue,
               tagline |-> NoValue, challenge |-> NoValue, labels |-> NoValue,
               body |-> NoValue]]

\* A request /{locale}/projects/{slug}: the page mounts with
\* useState<TabType>('overview') and renders.
ProjectPage(locale, slug) ==
    /\ page' = [mounted |-> TRUE, locale |-> locale, slug |-> slug,
                activeTab |-> "overview",
                view |-> PageRender(projects, locale, slug, "overview")]
    /\ lightbox' = ClosedLightbox(lightbox.gallery)
    /\ UNCHANGED <<siteContent, projects, config, lookup, filter, section>>
    /\ UNCHANGED <<route, whatsapp>>
    /\ UNCHANGED cyclerVars
    /\ UNCHANGED form

SetActiveTabClosingLightbox(tab) ==
    /\ page.mounted
    /\ page.view.outcome = "rendered"
    /\ page' = [page EXCEPT !.activeTab = tab,
                            !.view = PageRender(projects, page.locale,
                                                page.slug, tab)]
    /\ lightbox' = ClosedLightbox(lightbox.gallery)
    /\ UNCHANGED <<siteContent, projects, config, lookup, filter, section>>
    /\ UNCHANGED <<route, whatsapp>>
    /\ UNCHANGED cyclerVars
    /\ UNCHANGED form

\* onClick={() => setActiveTab(tab.id)} on a rendered page, and the
\* re-render that follows.
SetActiveTab(tab) ==
    /\ page.mounted
    /\ page.view.outcome = "rendered"
    /\ page' = [page EXCEPT !.activeTab = tab,
                            !.view = PageRender(projects, page.locale,
                                                page.slug, tab)]
    /\ UNCHANGED <<siteContent, projects, config, lookup, filter, section>>
    /\ UNCHANGED <<route, whatsapp>>
    /\ UNCHANGED cyclerVars
    /\ UNCHANGED widgetVars

(***************************************************************************)
(* Lightbox of the detail page.  A state update and the render after it    *)
(* are one step; the effect that registers the keydown listener again is   *)
(* a step of its own, so key events can reach the listener of an earlier   *)
(* render.                                                                 *)
(***************************************************************************)
\* imageIndex > 0 ? imageIndex - 1 : gallery.length - 1
PrevIndex(imageIndex, length) ==
    IF imageIndex > 0 THEN imageIndex - 1 ELSE length - 1

\* imageIndex < gallery.length - 1 ? imageIndex + 1 : 0
NextImageIndex(imageIndex, length) ==
    IF imageIndex < length - 1 THEN imageIndex + 1 ELSE 0

KeyInputs == {"Escape", "ArrowLeft", "ArrowRight", "Enter"}

\* The navigation steps taken since the lightbox was last opened or
\* closed, each with the image and index it started from; the last
\* max(2, gallery.length) of them are kept.
Logged(op) ==
    LET entry == [op |-> op, selectedImage |-> lightbox.selectedImage,
                  imageIndex |-> lightbox.imageIndex]
        all   == Append(lightbox.log, entry)
        keep  == IF Len(lightbox.gallery) > 2 THEN Len(lightbox.gallery) ELSE 2
    IN  IF Len(all) > keep THEN SubSeq(all, Len(all) - keep + 1, Len(all))
        ELSE all

LightboxFrame ==
    /\ UNCHANGED siteVars
    /\ UNCHANGED <<route, whatsapp>>
    /\ UNCHANGED cyclerVars
    /\ UNCHANGED form

\* The gallery grid is rendered on the gallery tab of a rendered page;
\* the modal (fixed inset-0 z-50) covers it while the lightbox is open.
GalleryShown ==
    /\ page.mounted
    /\ page.view.outcome = "rendered"
    /\ page.activeTab = "gallery"
    /\ Len(lightbox.gallery) > 0
    /\ lightbox.selectedImage = NoImage

\* The modal is rendered: {selectedImage && (...)}
LightboxOpen == page.mounted /\ lightbox.selectedImage # NoImage

\* onClick of the gallery image at index (0-based).
ClickImage(index) ==
    /\ GalleryShown
    /\ index \in 0..(Len(lightbox.gallery) - 1)
    /\ lightbox' = [lightbox EXCEPT
                      !.selectedImage = GalleryAt(lightbox.gallery, index),
                      !.imageIndex = index,
                      !.log = <<>>]
    /\ LightboxFrame

\* handleKeyDown as registered by the last run of the effect: the updater
\* of setImageIndex reads the current index, the argument of
\* setSelectedImage reads the index the listener has captured.
HandleKeyDown(key) ==
    /\ page.mounted
    /\ page.view.outcome = "rendered"
    /\ LET h == lightbox.handler
           n == Len(lightbox.gallery)
       IN  lightbox' =
             IF h.selectedImage = NoImage THEN lightbox
             ELSE IF key = "Escape"
             THEN [lightbox EXCEPT !.selectedImage = NoImage, !.log = <<>>]
             ELSE IF key = "ArrowLeft"
             THEN [lightbox EXCEPT
                     !.imageIndex = PrevIndex(lightbox.imageIndex, n),
                     !.selectedImage =
                         GalleryAt(lightbox.gallery, PrevIndex(h.imageIndex, n)),
                     !.log = Logged("previous")]
             ELSE IF key = "ArrowRight"
             THEN [lightbox EXCEPT
                     !.imageIndex = NextImageIndex(lightbox.imageIndex, n),
                     !.selectedImage =
                         GalleryAt(lightbox.gallery,
                                   NextImageIndex(h.imageIndex, n)),
                     !.log = Logged("next")]
             ELSE lightbox
    /\ LightboxFrame

\* The effect runs again after a render that changed selectedImage or
\* imageIndex: the old listener is removed, a new one is added.
RegisterKeyDown ==
    /\ page.mounted
    /\ lightbox.handler # HandlerOf(lightbox.selectedImage, lightbox.imageIndex)
    /\ lightbox' = [lightbox EXCEPT
                      !.handler = HandlerOf(lightbox.selectedImage,
                                            lightbox.imageIndex)]
    /\ LightboxFrame

\* onClick of the previous button of the modal.
ClickPrevious ==
    /\ LightboxOpen
    /\ LET newIndex == PrevIndex(lightbox.imageIndex, Len(lightbox.gallery))
       IN  lightbox' = [lightbox EXCEPT
                         !.imageIndex = newIndex,
                         !.selectedImage = GalleryAt(lightbox.gallery, newIndex),
                         !.log = Logged("previous")]
    /\ LightboxFrame

\* onClick of the next button of the modal.
ClickNext ==
    /\ LightboxOpen
    /\ LET newIndex == NextImageIndex(lightbox.imageIndex, Len(lightbox.gallery))
       IN  lightbox' = [lightbox EXCEPT
                         !.imageIndex = newIndex,
                         !.selectedImage = GalleryAt(lightbox.gallery, newIndex),
                         !.log = Logged("next")]
    /\ LightboxFrame

\* onClick of the close button and of the backdrop: setSelectedImage(null).
CloseLightbox ==
    /\ LightboxOpen
    /\ lightbox' = [lightbox EXCEPT !.selectedImage = NoImage, !.log = <<>>]
    /\ LightboxFrame

(***************************************************************************)
(* 6. Route surface: middleware.ts, the locale layout and the pages.       *)
(***************************************************************************)
\* middleware.ts: defaultLocale: "es"
defaultLocale == "es"

\* A home request carries no slug.
NoSlug == "<home>"

\* middleware.ts config.matcher: ["/", "/(es)/:path*"]; NoLocale is "/".
MatcherMatches(locale) == locale = NoLocale \/ locale = "es"

\* The locale segment after the middleware: "/" is redirected to the
\* default locale (localePrefix: "always"), an unmatched path is left as is.
MiddlewareLocale(locale) ==
    IF MatcherMatches(locale) /\ locale = NoLocale THEN defaultLocale ELSE locale

\* [locale]/layout.tsx: const locales = ["es"]
layoutLocales == <<"es">>

\* [locale]/layout.tsx generateStaticParams: locales.map(locale => ({locale}))
staticParamLocales == layoutLocales

\* sitemap.ts: const locales = ['en', 'es', 'pt']; one home URL and one URL
\* per case study for each of them.
sitemapLocales == <<"en", "es", "pt">>

\* Header.tsx: languages, each rendered as a link to /{code}.
headerLanguages == <<"en", "es", "pt">>

\* The locales for which the site publishes a URL.
AdvertisedLocales ==
    {sitemapLocales[i] : i \in DOMAIN sitemapLocales}
        \cup {staticParamLocales[i] : i \in DOMAIN staticParamLocales}
        \cup {headerLanguages[i] : i \in DOMAIN headerLanguages}

LayoutAcceptsAny(locale) == TRUE

\* if (!locales.includes(locale)) notFound()
LayoutAccepts(locale) == Includes(layoutLocales, locale)

\* The outcome of a request /, /{locale} or /{locale}/projects/{slug}.
\* notFound() in the layout throws before the layout returns its tree, so
\* neither the layout nor the page is rendered.
RouteOutcome(ps, locale, slug) ==
    LET served == MiddlewareLocale(locale)
    IN  IF ~LayoutAccepts(served)
        THEN [requested |-> TRUE, locale |-> locale, slug |-> slug,
              served |-> served, layout |-> FALSE, page |-> "none",
              outcome |-> "notFound"]
        ELSE IF slug = NoSlug
        THEN [requested |-> TRUE, locale |-> locale, slug |-> slug,
              served |-> served, layout |-> TRUE, page |-> "HomePage",
              outcome |-> "rendered"]
        ELSE LET view == PageRender(ps, served, slug, "overview")
             IN  [requested |-> TRUE, locale |-> locale, slug |-> slug,
                  served |-> served, layout |-> TRUE,
                  page |-> IF view.outcome = "rendered"
                           THEN view.project ELSE "none",
                  outcome |-> view.outcome]

NoRoute ==
    [requested |-> FALSE, locale |-> NoLocale, slug |-> NoSlug,
     served |-> "", layout |-> FALSE, page |-> "none", outcome |-> "none"]

RouteRequest(locale, slug) ==
    /\ locale = NoLocale => slug = NoSlug
    /\ route' = RouteOutcome(projects, locale, slug)
    /\ UNCHANGED siteVars
    /\ UNCHANGED whatsapp
    /\ UNCHANGED cyclerVars
    /\ UNCHANGED widgetVars

(***************************************************************************)
(* 6. Outbound link construction: lib/utils.ts.                            *)
(* A string is the sequence of its characters; in a URL the scheme and     *)
(* host, the "?text=" separator and each percent escape are one element.   *)
(***************************************************************************)
MaxPhoneLen == 2

MaxMessageLen == 2

Digits == {"0", "1", "2", "3", "4", "5", "6", "7", "8", "9"}

\* Characters of the phone numbers and messages that are tried.
PhoneChars == {"+", " ", "3", "4"}

MessageChars == {"H", "!", " "}

\* "+34 611 200787"
ExamplePhone ==
    <<"+", "3", "4", " ", "6", "1", "1", " ", "2", "0", "0", "7", "8", "7">>

\* "Hi!"
ExampleMessage == <<"H", "i", "!">>

StringsOver(chars, maxLen) == UNION {[1..n -> chars] : n \in 0..maxLen}

\* phone.replace(/\D/g, '')
formatWhatsAppNumber(phone) == SelectSeq(phone, LAMBDA c : c \in Digits)

\* Characters encodeURIComponent leaves as they are: A-Z a-z 0-9 - _ . ! ~ * ' ( )
Letters ==
    {"A", "B", "C", "D", "E", "F", "G", "H", "I", "J", "K", "L", "M",
     "N", "O", "P", "Q", "R", "S", "T", "U", "V", "W", "X", "Y", "Z",
     "a", "b", "c", "d", "e", "f", "g", "h", "i", "j", "k", "l", "m",
     "n", "o", "p", "q", "r", "s", "t", "u", "v", "w", "x", "y", "z"}

Unreserved ==
    Digits \cup Letters \cup {"-", "_", ".", "!", "~", "*", "'", "(", ")"}

\* The UTF-8 percent escape of a character that is not unreserved.
PercentEscape(c) ==
    CASE c = " " -> "%20"
      [] c = "+" -> "%2B"
      [] c = "!" -> "%21"
      [] c = "&" -> "%26"
      [] c = "?" -> "%3F"
      [] c = ":" -> "%3A"
      [] c = "<e-acute>" -> "%C3%A9"
      [] c = "\n" -> "%0A"
      [] OTHER -> "%XX"

encodeURIComponentEscapingMarks(str) ==
    [i \in 1..Len(str) |->
        IF str[i] \in Digits \cup Letters
        THEN str[i] ELSE PercentEscape(str[i])]

encodeURIComponent(str) ==
    [i \in 1..Len(str) |->
        IF str[i] \in Unreserved THEN str[i] ELSE PercentEscape(str[i])]

createWhatsAppURLAlwaysText(phone, message) ==
    <<"https://wa.me/">> \o formatWhatsAppNumber(phone)
        \o <<"?text=">> \o encodeURIComponent(message.s)

\* message ? encodeURIComponent(message) : ''
\* `https://wa.me/${formattedPhone}${encodedMessage ? `?text=${encodedMessage}` : ''}`
createWhatsAppURL(phone, message) ==
    LET formattedPhone == formatWhatsAppNumber(phone)
        encodedMessage == IF Truthy(message)
                          THEN encodeURIComponent(message.s) ELSE <<>>
    IN  <<"https://wa.me/">> \o formattedPhone
            \o (IF encodedMessage # <<>>
                THEN <<"?text=">> \o encodedMessage ELSE <<>>)

NoUrl == [called |-> FALSE, phone |-> <<>>, message |-> JsUndefined, url |-> <<>>]

\* A call with the arguments held in whatsapp.
CreateWhatsAppURL ==
    /\ ~whatsapp.called
    /\ whatsapp' = [whatsapp EXCEPT
                      !.called = TRUE,
                      !.url = createWhatsAppURL(whatsapp.phone, whatsapp.message)]
    /\ UNCHANGED siteVars
    /\ UNCHANGED route
    /\ UNCHANGED cyclerVars
    /\ UNCHANGED widgetVars

(***************************************************************************)
(* 4.5 Typed-text cycler: AnimatedText.                                    *)
(* The component state is (currentIndex, currentText, isDeleting).  The    *)
(* effect depends on all of it and on the props, so every state change     *)
(* and every new texts array re-runs it: its cleanup clears the tick timer *)
(* it had set and a new tick timer is set.  The timer the tick callback    *)
(* sets for the pause is kept in no variable and is cleared by nothing.    *)
(* A state update, the re-render and the effect that follow it are one     *)
(* step.  Delays are not measured: a pending timer may fire at any step,   *)
(* pause timers (all of delay pauseTime) in the order they were set.       *)
(***************************************************************************)
MaxTexts == 2

MaxRerenders == 2

\* The strings that are cycled, as sequences of characters.
TextPool == {<<>>, <<"A">>, <<"B", "C">>}

TextInputs == UNION {[1..n -> TextPool] : n \in 1..MaxTexts}

TypeNextTwo(targetText, currentText) ==
    SubSeq(targetText, 1,
           IF Len(currentText) + 2 > Len(targetText)
           THEN Len(targetText) ELSE Len(currentText) + 2)

TypeAll(targetText, currentText) == targetText

\* targetText.slice(0, currentText.length + 1)
TypeNext(targetText, currentText) ==
    SubSeq(targetText, 1, Len(currentText) + 1)

DeleteAll(currentText) == <<>>

\* currentText.slice(0, -1)
DeleteLast(currentText) == SubSeq(currentText, 1, Len(currentText) - 1)

NextIndexStay(prev, length) == prev

\* (prev) => (prev + 1) % texts.length
NextIndex(prev, length) == (prev + 1) % length

\* const targetText = texts[currentIndex]
TargetText == texts[cycler.currentIndex + 1]

\* The delay of the tick timer the effect sets: isDeleting ? deletingSpeed : typingSpeed
TickDelay(isDeleting) == IF isDeleting THEN "deletingSpeed" ELSE "typingSpeed"

\* Pause timers set since the text last became the full target (fresh) and
\* pause timers left from before (stale).
PendingPause == timers.fresh + timers.stale

PendingTimers == (IF timers.tick = "none" THEN 0 ELSE 1) + PendingPause

\* What the component has done until the index has advanced once per
\* string: the values passed to setCurrentText, the number of advances and
\* the index the last of them produced.
Record(emit, advanced, index) ==
    IF trace.advances >= Len(texts)
    THEN [emitted |-> trace.emitted, advances |-> trace.advances,
          indexAtEnd |-> trace.indexAtEnd]
    ELSE [emitted |-> trace.emitted \o emit,
          advances |-> trace.advances + (IF advanced THEN 1 ELSE 0),
          indexAtEnd |-> IF advanced /\ trace.advances + 1 = Len(texts)
                         THEN index ELSE trace.indexAtEnd]

Traced(op, emit, advanced, index) ==
    LET r == Record(emit, advanced, index)
    IN  [op |-> op, opIndex |-> cycler.currentIndex,
         emitted |-> r.emitted, advances |-> r.advances,
         indexAtEnd |-> r.indexAtEnd, rerenders |-> trace.rerenders,
         afterUnmount |-> trace.afterUnmount]

\* useState(0), useState(''), useState(false) and the first run of the effect.
Mounted ==
    /\ cycler = [mounted |-> TRUE, currentIndex |-> 0, currentText |-> <<>>,
                 isDeleting |-> FALSE]
    /\ timers = [tick |-> TickDelay(FALSE), fresh |-> 0, stale |-> 0]
    /\ trace = [op |-> "mount", opIndex |-> 0, emitted |-> <<>>,
                advances |-> 0, indexAtEnd |-> -1, rerenders |-> 0,
                afterUnmount |-> FALSE]

\* The callback of the tick timer.
Tick ==
    /\ timers.tick # "none"
    /\ IF ~cycler.isDeleting
       THEN IF Len(cycler.currentText) < Len(TargetText)
            THEN LET typed == TypeNext(TargetText, cycler.currentText)
                 IN  /\ cycler' = [cycler EXCEPT !.currentText = typed]
                     /\ timers' = [timers EXCEPT !.tick = TickDelay(FALSE)]
                     /\ trace' = Traced("type", <<typed>>, FALSE, 0)
            ELSE \* setTimeout(() => setIsDeleting(true), pauseTime): no state
                 \* changes, so the effect does not run and sets no tick timer
                 /\ cycler' = cycler
                 /\ timers' = [timers EXCEPT !.tick = "none",
                                             !.fresh = timers.fresh + 1]
                 /\ trace' = Traced("pause", <<>>, FALSE, 0)
       ELSE IF Len(cycler.currentText) > 0
            THEN LET left == DeleteLast(cycler.currentText)
                 IN  /\ cycler' = [cycler EXCEPT !.currentText = left]
                     /\ timers' = [timers EXCEPT !.tick = TickDelay(TRUE)]
                     /\ trace' = Traced("delete", <<left>>, FALSE, 0)
            ELSE LET index == NextIndex(cycler.currentIndex, Len(texts))
                 IN  /\ cycler' = [cycler EXCEPT !.isDeleting = FALSE,
                                                 !.currentIndex = index]
                     /\ timers' = [timers EXCEPT !.tick = TickDelay(FALSE)]
                     /\ trace' = Traced("advance", <<>>, TRUE, index)
    /\ UNCHANGED texts
    /\ UNCHANGED siteVars
    /\ UNCHANGED <<route, whatsapp>>
    /\ UNCHANGED widgetVars

\* The callback of the oldest pause timer: setIsDeleting(true).  When the
\* state changes the effect re-runs; the pause timers that remain were set
\* for a pause that is over.  On an unmounted component the update is
\* dropped.
PauseFire ==
    /\ PendingPause > 0
    /\ LET fresh == IF timers.stale > 0 THEN timers.fresh ELSE timers.fresh - 1
           stale == IF timers.stale > 0 THEN timers.stale - 1 ELSE 0
       IN  IF cycler.mounted /\ ~cycler.isDeleting
           THEN /\ cycler' = [cycler EXCEPT !.isDeleting = TRUE]
                /\ timers' = [tick |-> TickDelay(TRUE), fresh |-> 0,
                              stale |-> fresh + stale]
                /\ trace' = [trace EXCEPT !.op = "setIsDeleting",
                                          !.opIndex = cycler.currentIndex]
           ELSE /\ cycler' = cycler
                /\ timers' = [timers EXCEPT !.fresh = fresh, !.stale = stale]
                /\ trace' = [trace EXCEPT !.op = "setIsDeleting",
                                          !.opIndex = cycler.currentIndex,
                                          !.afterUnmount = ~cycler.mounted]
    /\ UNCHANGED texts
    /\ UNCHANGED siteVars
    /\ UNCHANGED <<route, whatsapp>>
    /\ UNCHANGED widgetVars

\* HeroSection renders again: typedTexts is a new array with the same
\* strings, so the effect's cleanup clears the tick timer and the effect
\* sets a new one.
Rerender ==
    /\ cycler.mounted
    /\ trace.rerenders < MaxRerenders
    /\ timers' = [timers EXCEPT !.tick = TickDelay(cycler.isDeleting)]
    /\ trace' = [trace EXCEPT !.op = "rerender",
                              !.opIndex = cycler.currentIndex,
                              !.rerenders = trace.rerenders + 1]
    /\ UNCHANGED <<texts, cycler>>
    /\ UNCHANGED siteVars
    /\ UNCHANGED <<route, whatsapp>>
    /\ UNCHANGED widgetVars

\* The component unmounts: return () => clearTimeout(timeout).
Unmount ==
    /\ cycler.mounted
    /\ cycler' = [cycler EXCEPT !.mounted = FALSE]
    /\ timers' = [timers EXCEPT !.tick = "none"]
    /\ trace' = [trace EXCEPT !.op = "unmount",
                              !.opIndex = cycler.currentIndex]
    /\ UNCHANGED texts
    /\ UNCHANGED siteVars
    /\ UNCHANGED <<route, whatsapp>>
    /\ UNCHANGED widgetVars

(***************************************************************************)
(* Contact form: ContactSection.handleSubmit.                              *)
(* The two setTimeout calls of a submission are kept in no variable and    *)
(* are cleared by nothing.  Timers of the same delay fire in the order     *)
(* they were set; each carries the number of its submission.               *)
(***************************************************************************)
MaxSubmits == 2

Fields == {"name", "phone", "email", "message"}

\* What the visitor types into a field.
FieldValues(field) ==
    IF field = "name" THEN {<<>>, <<"A">>, <<"B">>} ELSE {<<>>, <<"A">>}

\* useState({ name: '', phone: '', email: '', message: '' })
EmptyFormData == [f \in Fields |-> <<>>]

\* contactInfo.whatsapp
SiteWhatsApp == ExamplePhone

\* `Hola! Soy ${name}.\nTel<e-acute>fono: ${phone}\nEmail: ${email}\n\nMensaje: ${message}`
ContactMessage(formData) ==
    <<"H", "o", "l", "a", "!", " ", "S", "o", "y", " ">> \o formData.name
      \o <<".", "\n", "T", "e", "l", "<e-acute>", "f", "o", "n", "o", ":", " ">>
      \o formData.phone
      \o <<"\n", "E", "m", "a", "i", "l", ":", " ">> \o formData.email
      \o <<"\n", "\n", "M", "e", "n", "s", "a", "j", "e", ":", " ">>
      \o formData.message

ContactLinkOfNameOnly(formData) ==
    createWhatsAppURL(SiteWhatsApp, JsString(formData.name))

\* createWhatsAppURL(contactInfo.whatsapp, message)
ContactLink(formData) ==
    createWhatsAppURL(SiteWhatsApp, JsString(ContactMessage(formData)))

NoLink == <<>>

\* The section as it mounts.  The Button component is not part of the
\* sources: whether isLoading disables the submit button is open, and
\* both are explored.
MountedForm(loadingDisables) ==
    [mounted |-> TRUE, formData |-> EmptyFormData, isSubmitting |-> FALSE,
     submitStatus |-> "idle", loadingDisables |-> loadingDisables,
     submits |-> 0, opened |-> NoLink, submitted |-> EmptyFormData,
     submitTimers |-> <<>>, statusTimers |-> <<>>,
     successOf |-> 0, typedSince |-> FALSE, wipedTyped |-> FALSE,
     clearedOther |-> FALSE, afterUnmount |-> FALSE, op |-> "mount"]

FormFrame ==
    /\ UNCHANGED siteVars
    /\ UNCHANGED <<route, whatsapp>>
    /\ UNCHANGED cyclerVars
    /\ UNCHANGED lightbox

\* onChange={(e) => setFormData({ ...formData, [field]: e.target.value })}
SetFormData(field, value) ==
    /\ form.mounted
    /\ form.formData[field] # value
    /\ form' = [form EXCEPT !.formData = [form.formData EXCEPT ![field] = value],
                            !.typedSince = Len(form.submitTimers) > 0,
                            !.op = "setFormData"]
    /\ FormFrame

\* The browser submits the form when every required field has a value and
\* the submit button is enabled.
CanSubmit ==
    /\ form.mounted
    /\ \A f \in Fields : form.formData[f] # <<>>
    /\ ~(form.loadingDisables /\ form.isSubmitting)

\* handleSubmit: setIsSubmitting(true), setSubmitStatus('idle'),
\* window.open(whatsappURL, '_blank'), setTimeout(..., 500).
HandleSubmit ==
    /\ CanSubmit
    /\ form.submits < MaxSubmits
    /\ form' = [form EXCEPT
                  !.isSubmitting = TRUE,
                  !.submitStatus = "idle",
                  !.submits = form.submits + 1,
                  !.opened = ContactLink(form.formData),
                  !.submitted = form.formData,
                  !.submitTimers = Append(form.submitTimers, form.submits + 1),
                  !.successOf = 0,
                  !.typedSince = FALSE,
                  !.op = "submit"]
    /\ FormFrame

\* The callback of the oldest 500 ms timer: setIsSubmitting(false),
\* setSubmitStatus('success'), setFormData(empty), and the 3000 ms timer.
\* On an unmounted section the updates are dropped; the timer is set.
SubmitTimer ==
    /\ Len(form.submitTimers) > 0
    /\ LET id == Head(form.submitTimers)
       IN  form' =
             IF form.mounted
             THEN [form EXCEPT
                     !.isSubmitting = FALSE,
                     !.submitStatus = "success",
                     !.formData = EmptyFormData,
                     !.submitTimers = Tail(form.submitTimers),
                     !.statusTimers = Append(form.statusTimers, id),
                     !.successOf = id,
                     !.wipedTyped = form.wipedTyped
                        \/ (form.typedSince /\ form.formData # EmptyFormData),
                     !.typedSince = FALSE,
                     !.op = "submitTimer"]
             ELSE [form EXCEPT
                     !.submitTimers = Tail(form.submitTimers),
                     !.statusTimers = Append(form.statusTimers, id),
                     !.afterUnmount = TRUE,
                     !.op = "submitTimer"]
    /\ FormFrame

\* The callback of the oldest 3000 ms timer: setSubmitStatus('idle').
StatusTimer ==
    /\ Len(form.statusTimers) > 0
    /\ LET id == Head(form.statusTimers)
       IN  form' =
             IF form.mounted
             THEN [form EXCEPT
                     !.submitStatus = "idle",
                     !.statusTimers = Tail(form.statusTimers),
                     !.clearedOther = form.clearedOther
                        \/ (form.submitStatus = "success" /\ form.successOf # id),
                     !.successOf = 0,
                     !.op = "statusTimer"]
             ELSE [form EXCEPT
                     !.statusTimers = Tail(form.statusTimers),
                     !.afterUnmount = TRUE,
                     !.op = "statusTimer"]
    /\ FormFrame

\* The section unmounts; it has no effect cleanup.
UnmountContact ==
    /\ form.mounted
    /\ form' = [form EXCEPT !.mounted = FALSE, !.op = "unmount"]
    /\ FormFrame

(***************************************************************************)
(* Specifications.                                                         *)
(***************************************************************************)
\* The hero's cycler as HeroSection mounts it, with two strings.
InitHero ==
    /\ texts = <<<<"A">>, <<"B", "C">>>>
    /\ Mounted

InitSite ==
    /\ siteContent = SiteContentJson
    /\ config = NoConfig
    /\ lookup = NoLookup
    /\ filter = "all"
    /\ section = SectionRender(projects, "all")
    /\ page = NoPage
    /\ route = NoRoute

\* The detail page's lightbox over a gallery of two images and the
\* contact form as they mount.
InitWidgets ==
    /\ lightbox = ClosedLightbox(SubSeq(GalleryImages, 1, 2))
    /\ form = MountedForm(TRUE)

InitUi ==
    /\ InitSite
    /\ whatsapp = NoUrl
    /\ InitWidgets

\* Locale resolution, site-content reads and the detail page, over every
\* translation state of the case studies.
Init ==
    /\ projects \in AllCaseStudyLists({TRUE}, {<<"branding">>}, Translations)
    /\ InitUi
    /\ InitHero

Next ==
    \/ \E requestLocale \in LocaleInputs : GetRequestConfig(requestLocale)
    \/ \E locale \in RouteLocales : GenerateMetadata(locale)
    \/ \E locale \in RouteLocales : ContactSection(locale)
    \/ \E locale \in RouteLocales : ServicesSection(locale)
    \/ \E locale \in RouteLocales, slug \in SlugInputs : ProjectPage(locale, slug)
    \/ \E tab \in TabTypes : SetActiveTab(tab)

Spec == Init /\ [][Next]_vars

\* The projects section over every featured/category assignment.
InitFilter ==
    /\ projects \in AllCaseStudyLists(BOOLEAN, CategoryTags, {{"en", "es", "pt"}})
    /\ InitUi
    /\ InitHero

NextFilter == \E i \in 1..Len(categories) : SetFilter(categories[i])

SpecFilter == InitFilter /\ [][NextFilter]_vars

\* Requests to the route surface, over every translation state of the
\* case studies.
InitRoute ==
    /\ projects \in AllCaseStudyLists({TRUE}, {<<"branding">>}, Translations)
    /\ InitUi
    /\ InitHero

NextRoute ==
    \E locale \in RouteLocales \cup {NoLocale}, slug \in SlugInputs \cup {NoSlug} :
        RouteRequest(locale, slug)

SpecRoute == InitRoute /\ [][NextRoute]_vars

\* The content with every case study translated.
InitContent ==
    /\ projects \in CaseStudyLists(MaxProjects, {TRUE}, {<<"branding">>},
                                   {{"en", "es", "pt"}})
    /\ InitSite

\* The cycler over every list of strings, with re-renders of its parent
\* and its unmount.
InitCycler ==
    /\ InitContent
    /\ whatsapp = NoUrl
    /\ InitWidgets
    /\ texts \in TextInputs
    /\ Mounted

NextCycler ==
    \/ Tick
    \/ PauseFire
    \/ Rerender
    \/ Unmount

SpecCycler == InitCycler /\ [][NextCycler]_vars

\* The cycler while it stays mounted: a pending timer fires eventually.
\* The parent renders again at most MaxRerenders times.
NextMounted ==
    \/ Tick
    \/ PauseFire
    \/ Rerender

SpecMounted ==
    /\ InitCycler
    /\ [][NextMounted]_vars
    /\ WF_vars(Tick)
    /\ WF_vars(PauseFire)

\* Calls of createWhatsAppURL over every phone number and message.
PhoneInputs == StringsOver(PhoneChars, MaxPhoneLen) \cup {ExamplePhone}

MessageInputs ==
    {JsUndefined}
        \cup {JsString(m) : m \in StringsOver(MessageChars, MaxMessageLen)}
        \cup {JsString(ExampleMessage)}

InitWhatsApp ==
    /\ InitContent
    /\ InitHero
    /\ InitWidgets
    /\ \E phone \in PhoneInputs, message \in MessageInputs :
          whatsapp = [called |-> FALSE, phone |-> phone, message |-> message,
                      url |-> <<>>]

NextWhatsApp == CreateWhatsAppURL

SpecWhatsApp == InitWhatsApp /\ [][NextWhatsApp]_vars

\* Every kind of read of the content next to each other: the locale
\* resolver, a site-content reader, the category filter, the detail page
\* with its tabs, and opening and closing the lightbox.
InitContentReads ==
    /\ InitContent
    /\ whatsapp = NoUrl
    /\ InitHero
    /\ InitWidgets

NextContentReads ==
    \/ \E requestLocale \in {"es", "fr"} : GetRequestConfig(requestLocale)
    \/ \E locale \in {"es", "fr"} : GenerateMetadata(locale)
    \/ \E i \in 1..Len(categories) : SetFilter(categories[i])
    \/ \E slug \in SlugInputs : ProjectPage("es", slug)
    \/ \E tab \in TabTypes : SetActiveTab(tab)
    \/ \E index \in 0..(MaxImages - 1) : ClickImage(index)
    \/ CloseLightbox

SpecContentReads == InitContentReads /\ [][NextContentReads]_vars

\* The lightbox of a case study over every gallery.
InitLightbox ==
    /\ InitContent
    /\ whatsapp = NoUrl
    /\ InitHero
    /\ \E gallery \in Galleries : lightbox = ClosedLightbox(gallery)
    /\ form = MountedForm(TRUE)

NextLightbox ==
    \/ ProjectPage("es", Slugs[1])
    \/ \E tab \in {"overview", "gallery"} : SetActiveTab(tab)
    \/ \E index \in 0..(MaxImages - 1) : ClickImage(index)
    \/ \E key \in KeyInputs : HandleKeyDown(key)
    \/ RegisterKeyDown
    \/ ClickPrevious
    \/ ClickNext
    \/ CloseLightbox

SpecLightbox == InitLightbox /\ [][NextLightbox]_vars

\* The detail page with its tabs and lightbox next to the category filter.
InitViewer ==
    /\ InitContent
    /\ whatsapp = NoUrl
    /\ InitHero
    /\ InitWidgets

NextViewer ==
    \/ \E slug \in SlugInputs : ProjectPage("es", slug)
    \/ \E tab \in TabTypes : SetActiveTab(tab)
    \/ \E i \in 1..Len(categories) : SetFilter(categories[i])
    \/ \E index \in 0..(MaxImages - 1) : ClickImage(index)
    \/ \E key \in KeyInputs : HandleKeyDown(key)
    \/ RegisterKeyDown
    \/ ClickPrevious
    \/ ClickNext
    \/ CloseLightbox

SpecViewer == InitViewer /\ [][NextViewer]_vars

\* The contact form with visitors typing and submitting, and its unmount.
InitForm ==
    /\ InitContent
    /\ whatsapp = NoUrl
    /\ InitHero
    /\ lightbox = ClosedLightbox(SubSeq(GalleryImages, 1, 2))
    /\ \E loadingDisables \in BOOLEAN : form = MountedForm(loadingDisables)

NextForm ==
    \/ \E field \in Fields : \E value \in FieldValues(field) :
          SetFormData(field, value)
    \/ HandleSubmit
    \/ SubmitTimer
    \/ StatusTimer
    \/ UnmountContact

SpecForm == InitForm /\ [][NextForm]_vars

\* The contact form while it stays mounted: a pending timer fires
\* eventually.
NextFormMounted ==
    \/ \E field \in Fields : \E value \in FieldValues(field) :
          SetFormData(field, value)
    \/ HandleSubmit
    \/ SubmitTimer
    \/ StatusTimer

SpecFormMounted ==
    /\ InitForm
    /\ [][NextFormMounted]_vars
    /\ WF_vars(SubmitTimer)
    /\ WF_vars(StatusTimer)

(***************************************************************************)
(* Properties.                                                             *)
(***************************************************************************)
\* C1: the locale resolver is total: every input outside the supported
\* set, the absent and the empty input included, resolves to "es" and the
\* request configuration is returned without an error.
ResolverTotal ==
    (config.called /\ (NotLocale(config.requestLocale)
                         \/ ~Includes(locales, config.requestLocale)))
        => (config.locale = "es" /\ config.messages = "es" /\ ~config.error)

ResolverFellBack ==
    /\ config.called
    /\ config.requestLocale = "fr"
    /\ config.locale = "es"

\* C2: every locale of the supported set en, es, pt is returned unchanged
\* by the locale resolver.
ResolverIdentityOnSupported ==
    (config.called /\ config.requestLocale \in SupportedLanguages)
        => config.locale = config.requestLocale

\* C3: every reader of the site content returns the bundle of the default
\* locale "es" for a locale key that is absent from the content map, and
\* raises no error.
SiteContentFallbackEverywhere ==
    (lookup.reader # "none" /\ lookup.locale \notin DOMAIN siteContent)
        => (~lookup.error /\ lookup.bundle = siteContent["es"])

\* The accessor of 4.3 with the fallback locale the page code names.
Resolve(field, locale) ==
    IF locale \in DOMAIN field THEN field[locale] ELSE field["en"]

PageShowsProject == page.mounted /\ page.view.outcome \in {"rendered", "error"}

PageProject == projects[Find(projects, page.slug)]

\* C4: every locale-varying field the detail page reads (title, tagline,
\* challenge, strategy and results sub-fields) has the value field[locale]
\* when that entry is present and the entry of the default locale otherwise.
LocalizedFieldsResolved ==
    PageShowsProject =>
        /\ page.view.title = Resolve(PageProject.title, page.locale)
        /\ page.view.tagline = Resolve(PageProject.tagline, page.locale)
        /\ page.view.challenge = Resolve(PageProject.challenge, page.locale)
        /\ page.activeTab = "strategy" =>
               page.view.body = Resolve(PageProject.solution, page.locale)
        /\ page.activeTab = "results" =>
               page.view.body = Resolve(PageProject.conclusion, page.locale)

\* C5: reading a locale-varying field of a case study never raises and
\* never yields undefined, also when the case study has no translation for
\* the requested locale.
LocalizedReadsDefined ==
    PageShowsProject =>
        /\ page.view.outcome # "error"
        /\ page.view.title.t # "undefined"
        /\ page.view.tagline.t # "undefined"
        /\ page.view.challenge.t # "undefined"
        /\ page.activeTab \in {"challenge", "strategy", "results"} =>
               page.view.body.t # "undefined"

\* The locales that the fallbacks observed in the current state landed on.
FallbackLocales ==
    (IF config.called /\ (NotLocale(config.requestLocale)
                            \/ ~Includes(locales, config.requestLocale))
     THEN {config.locale} ELSE {})
    \cup
    (IF lookup.reader = "generateMetadata" /\ ~lookup.error
            /\ lookup.locale \notin DOMAIN siteContent
     THEN {lookup.bundle.s[1]} ELSE {})
    \cup
    (IF PageShowsProject /\ page.locale \notin DOMAIN tabLabels
     THEN {page.view.labels.s[1]} ELSE {})
    \cup
    (IF PageShowsProject /\ page.activeTab = "results"
            /\ page.locale \notin DOMAIN PageProject.conclusion
     THEN {page.view.body.s[3]} ELSE {})

\* C6: there is one designated default locale: the resolver, the
\* site-content lookup, the tab labels and the localized field lookups
\* all fall back to the same locale.
OneDefaultLocale == Cardinality(FallbackLocales) <= 1

\* The featured case studies that carry the selected category.
Matches(p, f) == p.featured /\ (f = "all" \/ \E k \in 1..Len(p.category) : p.category[k] = f)

\* r lists entries of ps in the order of ps, each at most once.
IsSubsequence(r, ps) ==
    \E pos \in [1..Len(r) -> 1..Len(ps)] :
        /\ \A i \in 1..Len(r) : r[i] = ps[pos[i]]
        /\ \A i, j \in 1..Len(r) : i < j => pos[i] < pos[j]

\* C7: the category filter returns exactly the featured case studies (for
\* a category other than "all": those whose tags contain it), as a
\* subsequence of the source list in source order.
FilterExactInSourceOrder ==
    /\ IsSubsequence(section.filtered, projects)
    /\ \A i \in 1..Len(projects) :
           (\E k \in 1..Len(section.filtered) : section.filtered[k] = projects[i])
               <=> Matches(projects[i], filter)

FilterKeptOneOfTwo ==
    /\ filter = "branding"
    /\ Len(projects) = 2
    /\ projects[1].featured /\ projects[2].featured
    /\ Len(section.filtered) = 1
    /\ section.filtered[1] = projects[2]

\* C8: the category filter is idempotent: filtering a filtered list again
\* by the same category yields the same sequence.
FilterIdempotent ==
    /\ Filtered(section.filtered, filter) = section.filtered
    /\ \A i \in 1..Len(categories) :
           Filtered(Filtered(projects, categories[i]), categories[i])
               = Filtered(projects, categories[i])

FilterKeptTwo ==
    /\ filter = "vacation-rentals"
    /\ Len(section.filtered) = 2

\* C9: a category without a matching featured case study yields the empty
\* sequence, and the section shows the "no results" message exactly when
\* the filtered sequence is empty, without any project card.
NoResultsExactlyWhenEmpty ==
    /\ (\A i \in 1..Len(projects) : ~Matches(projects[i], filter))
           => section.filtered = <<>>
    /\ section.noResults <=> section.filtered = <<>>
    /\ section.noResults => section.cards = <<>>
    /\ Len(section.cards) = Len(section.filtered)

NoResultsShown ==
    /\ filter = "branding"
    /\ Len(projects) = 2
    /\ projects[1].featured
    /\ section.noResults

\* C10: a detail request whose slug matches no case study yields the
\* not-found outcome and shows no project; a request whose slug matches
\* renders the case study with that slug.
SlugLookupOutcome ==
    page.mounted =>
        IF \A i \in 1..Len(projects) : projects[i].slug # page.slug
        THEN page.view.outcome = "notFound" /\ page.view.project = ""
        ELSE /\ page.view.project = page.slug
             /\ page.view.outcome # "notFound"
             /\ page.activeTab = "overview" => page.view.outcome = "rendered"

UnknownSlugNotFound ==
    /\ page.mounted
    /\ page.slug = "nonexistent-project"
    /\ Len(projects) >= 1
    /\ page.view.outcome = "notFound"

\* C11: a request /{locale} or /{locale}/projects/{slug} whose locale is
\* not one the layout supports yields the not-found outcome; neither the
\* layout nor a page is rendered for it.
UnsupportedLocaleNotFound ==
    (route.requested /\ route.locale # NoLocale
        /\ ~Includes(layoutLocales, route.locale)) =>
            /\ route.outcome = "notFound"
            /\ ~route.layout
            /\ route.page = "none"

UnsupportedLocaleOnProject ==
    /\ route.requested
    /\ route.locale = "fr"
    /\ Len(projects) >= 1
    /\ route.slug = projects[1].slug
    /\ route.outcome = "notFound"

IsPrefix(s, t) == Len(s) <= Len(t) /\ s = SubSeq(t, 1, Len(s))

\* A typing tick appends the next character of the target.
TypingTickStep ==
    trace'.op = "type" =>
        /\ ~cycler.isDeleting
        /\ Len(cycler.currentText) < Len(TargetText)
        /\ cycler'.currentText =
              Append(cycler.currentText, TargetText[Len(cycler.currentText) + 1])
        /\ cycler'.currentIndex = cycler.currentIndex

\* On the full target nothing is appended and a tick sets the pause.
FullTargetStep ==
    (~cycler.isDeleting /\ cycler.currentText = TargetText) =>
        /\ cycler'.currentText = cycler.currentText
        /\ (trace'.op \in {"type", "pause", "delete", "advance"} =>
              (trace'.op = "pause" /\ timers'.fresh = timers.fresh + 1))

StartsEmptyAtZero ==
    trace.op = "mount" =>
        (cycler.currentIndex = 0 /\ cycler.currentText = <<>>
            /\ ~cycler.isDeleting)

\* C12: the cycler starts with index 0 and the empty text; a typing tick
\* appends exactly the next character of the target; the text is a prefix
\* of texts[index] in every state; on the full target a tick appends
\* nothing and sets the pause.
TypingAppendsNextCharacter ==
    /\ [](IsPrefix(cycler.currentText, TargetText) /\ StartsEmptyAtZero)
    /\ [][TypingTickStep /\ FullTargetStep]_vars

TypedToPause ==
    /\ cycler.mounted
    /\ trace.op = "pause"
    /\ cycler.currentText = <<"B", "C">>
    /\ timers.fresh = 1

\* C13: while the text is the full target and the cycler is not deleting,
\* the text and the index do not change, and the cycler starts deleting
\* only by a pause timer set after the text became the full target.
PauseLastsPauseTime ==
    [][(cycler.mounted /\ ~cycler.isDeleting
            /\ cycler.currentText = TargetText) =>
         /\ cycler'.currentText = cycler.currentText
         /\ cycler'.currentIndex = cycler.currentIndex
         /\ (cycler'.isDeleting => timers.stale = 0)]_vars

\* A deleting tick removes the last character.
DeletingTickStep ==
    trace'.op = "delete" =>
        /\ cycler.isDeleting
        /\ Len(cycler.currentText) > 0
        /\ cycler.currentText =
              Append(cycler'.currentText,
                     cycler.currentText[Len(cycler.currentText)])
        /\ cycler'.currentIndex = cycler.currentIndex

\* A tick on the empty text while deleting advances the index.
EmptiedStep ==
    (trace'.op \in {"type", "pause", "delete", "advance"}
        /\ cycler.isDeleting /\ cycler.currentText = <<>>) =>
            /\ trace'.op = "advance"
            /\ cycler'.currentIndex = (cycler.currentIndex + 1) % Len(texts)
            /\ ~cycler'.isDeleting
            /\ cycler'.currentText = <<>>

\* The index changes in no other step.
IndexChangeStep ==
    cycler'.currentIndex # cycler.currentIndex =>
        /\ trace'.op = "advance"
        /\ cycler.isDeleting
        /\ cycler.currentText = <<>>

\* C14: a deleting tick removes exactly the last character; on the empty
\* text the index becomes (index + 1) mod length(texts) and the cycler
\* types again; the index is within 0..length(texts)-1 and changes in no
\* other step.
DeletingRemovesLastCharacter ==
    /\ [](cycler.currentIndex \in 0..(Len(texts) - 1))
    /\ [][DeletingTickStep /\ EmptiedStep /\ IndexChangeStep]_vars

IndexWrapped ==
    /\ Len(texts) = 2
    /\ trace.op = "advance"
    /\ trace.opIndex = 1
    /\ cycler.currentIndex = 0
    /\ texts[2] = <<"B", "C">>

FullyTyped(i) ==
    /\ cycler.currentIndex = i - 1
    /\ ~cycler.isDeleting
    /\ cycler.currentText = texts[i]

FullyDeleted(i) ==
    /\ cycler.currentIndex = i - 1
    /\ cycler.isDeleting
    /\ cycler.currentText = <<>>

UnmountClearsAllTimers ==
    ~cycler.mounted => (PendingTimers = 0 /\ ~trace.afterUnmount)

\* C17: at most one timer of the cycler is pending in every state.
AtMostOneTimerPending == PendingTimers <= 1

\* C18: no typing or deleting tick is taken for a zero-length string of
\* the sequence.
ZeroLengthTakesNoTick ==
    trace.op \in {"type", "pause", "delete", "advance"} =>
        texts[trace.opIndex + 1] # <<>>

ExpectedCycle == <<<<"A">>, <<>>, <<"B">>, <<"B", "C">>, <<"B">>, <<>>>>

\* C19: with the sequence "A", "BC" and no re-render, the values set as
\* the text are "A", "", "B", "BC", "B", "" in this order and no other
\* until the index has advanced twice, and the index is then 0.
FirstCycleTrace ==
    (texts = <<<<"A">>, <<"B", "C">>>> /\ trace.rerenders = 0) =>
        /\ IsPrefix(trace.emitted, ExpectedCycle)
        /\ (trace.advances = 2 =>
              (trace.emitted = ExpectedCycle /\ trace.indexAtEnd = 0))

FirstCycleDone ==
    /\ texts = <<<<"A">>, <<"B", "C">>>>
    /\ trace.rerenders = 0
    /\ trace.advances = 2
    /\ trace.op = "advance"
    /\ Len(trace.emitted) = 6

\* The positions of the digits of a phone number, and the k-th of them.
DigitPositions(phone) == {i \in 1..Len(phone) : phone[i] \in Digits}

KthDigitPosition(phone, k) ==
    CHOOSE i \in DigitPositions(phone) :
        Cardinality({j \in DigitPositions(phone) : j <= i}) = k

\* The position of the query separator in a link, 0 when it has none.
QueryIndex(url) ==
    IF Includes(url, "?text=")
    THEN CHOOSE i \in 1..Len(url) : url[i] = "?text="
    ELSE 0

\* C20: the link is https://wa.me/ followed by the digits of the phone
\* number in their order and nothing else of it; the percent-encoded
\* message follows as the text query exactly when a non-empty message is
\* given, otherwise the link has no query.
WhatsAppLinkShape ==
    whatsapp.called =>
        LET url  == whatsapp.url
            q    == QueryIndex(url)
            path == SubSeq(url, 2, IF q = 0 THEN Len(url) ELSE q - 1)
            text == IF q = 0 THEN <<>> ELSE SubSeq(url, q + 1, Len(url))
            m    == whatsapp.message
        IN  /\ url[1] = "https://wa.me/"
            /\ \A i \in 1..Len(path) : path[i] \in Digits
            /\ Len(path) = Cardinality(DigitPositions(whatsapp.phone))
            /\ \A k \in 1..Len(path) :
                  path[k] = whatsapp.phone[KthDigitPosition(whatsapp.phone, k)]
            /\ (q # 0 <=> (m.t = "string" /\ m.s # <<>>))
            /\ q # 0 =>
                 /\ Len(text) = Len(m.s)
                 /\ \A i \in 1..Len(text) :
                        IF m.s[i] \in Unreserved
                        THEN text[i] = m.s[i]
                        ELSE text[i] = PercentEscape(m.s[i])
                                /\ text[i] \notin MessageChars

WhatsAppLinkWithText ==
    /\ whatsapp.called
    /\ whatsapp.phone = <<"+", "3">>
    /\ whatsapp.message = JsString(<<"H", " ">>)
    /\ whatsapp.url = <<"https://wa.me/", "3", "?text=", "H", "%20">>

ExampleDigits == <<"3", "4", "6", "1", "1", "2", "0", "0", "7", "8", "7">>

\* The elements of a link from position i on start with the sequence part.
HasAt(url, i, part) ==
    /\ i + Len(part) - 1 <= Len(url)
    /\ SubSeq(url, i, i + Len(part) - 1) = part

Contains(url, part) == \E i \in 1..Len(url) : HasAt(url, i, part)

\* C21 as stated: for the phone "+34 611 200787" the link contains
\* phone=34611200787; with the message "Hi!" it contains text=Hi%21 or an
\* equivalent encoding of it; with an empty message it has no text
\* parameter.
WhatsAppExampleHasPhoneParameter ==
    (whatsapp.called /\ whatsapp.phone = ExamplePhone) =>
        /\ formatWhatsAppNumber(whatsapp.phone) = ExampleDigits
        /\ Contains(whatsapp.url, <<"phone=">> \o ExampleDigits)
        /\ whatsapp.message = JsString(ExampleMessage) =>
              \/ Contains(whatsapp.url, <<"text=", "H", "i", "%21">>)
              \/ Contains(whatsapp.url, <<"?text=", "H", "i", "%21">>)
              \/ Contains(whatsapp.url, <<"?text=", "H", "i", "!">>)
        /\ ~Truthy(whatsapp.message) => ~Includes(whatsapp.url, "?text=")

\* C21 amended: for the phone "+34 611 200787" the link is
\* https://wa.me/34611200787, the digits being the path and no phone
\* parameter; with the message "Hi!" it ends with ?text=Hi! (the
\* exclamation mark is not escaped); with an empty or absent message it
\* has no text parameter.
WhatsAppExampleLink ==
    (whatsapp.called /\ whatsapp.phone = ExamplePhone) =>
        /\ formatWhatsAppNumber(whatsapp.phone) = ExampleDigits
        /\ HasAt(whatsapp.url, 1, <<"https://wa.me/">> \o ExampleDigits)
        /\ ~Includes(whatsapp.url, "phone=")
        /\ whatsapp.message = JsString(ExampleMessage) =>
              whatsapp.url = <<"https://wa.me/">> \o ExampleDigits
                                \o <<"?text=", "H", "i", "!">>
        /\ ~Truthy(whatsapp.message) =>
              whatsapp.url = <<"https://wa.me/">> \o ExampleDigits

WhatsAppExampleCalled ==
    /\ whatsapp.called
    /\ whatsapp.phone = ExamplePhone
    /\ whatsapp.message = JsString(ExampleMessage)
    /\ Len(whatsapp.url) = 16

\* C22: no operation changes the site content or the case-study list, and
\* every result that was computed (resolved locale, site-content bundle,
\* filtered section, rendered case study) is what computing it again with
\* the same arguments yields.
ContentReadOnly ==
    /\ [][siteContent' = siteContent /\ projects' = projects]_vars
    /\ [](/\ section = SectionRender(projects, filter)
          /\ page.mounted =>
                page.view = PageRender(projects, page.locale, page.slug,
                                       page.activeTab)
          /\ config.called => config = RequestConfig(config.requestLocale)
          /\ lookup.reader # "none" =>
                lookup = ReadOf("generateMetadata", lookup.locale,
                                MetadataLocaleData(siteContent, lookup.locale)))

ContentReadManyTimes ==
    /\ config.called
    /\ lookup.reader # "none"
    /\ filter = "branding"
    /\ page.mounted
    /\ page.activeTab = "results"
    /\ lightbox.imageIndex = 1
    /\ lightbox.selectedImage = NoImage

\* C24: whenever the lightbox is open the image shown is
\* gallery[imageIndex] and 0 <= imageIndex < gallery.length.
LightboxShowsIndexedImage ==
    LightboxOpen =>
        /\ lightbox.imageIndex \in 0..(Len(lightbox.gallery) - 1)
        /\ lightbox.selectedImage =
              GalleryAt(lightbox.gallery, lightbox.imageIndex)

\* C25: with the lightbox open, a next step from the last image shows the
\* first and a previous step from the first shows the last; a next step followed by a previous
\* step, or the reverse, restores image and index; gallery.length next
\* steps in a row restore image and index; a step by key and a step by
\* button yield the same index.
NavigationWrapsAndInverts ==
    LET log == lightbox.log
        k   == Len(log)
        n   == Len(lightbox.gallery)
    IN  (k >= 1 /\ \A j \in 1..k : log[j].selectedImage # NoImage) =>
          /\ (log[k].op = "next" /\ log[k].selectedImage = lightbox.gallery[n]) =>
                lightbox.selectedImage = lightbox.gallery[1]
          /\ (log[k].op = "previous"
                 /\ log[k].selectedImage = lightbox.gallery[1]) =>
                lightbox.selectedImage = lightbox.gallery[n]
          /\ lightbox.imageIndex =
                (IF log[k].op = "next"
                 THEN (log[k].imageIndex + 1) % n
                 ELSE (log[k].imageIndex + n - 1) % n)
          /\ (k >= 2 /\ log[k].op # log[k - 1].op) =>
                /\ lightbox.selectedImage = log[k - 1].selectedImage
                /\ lightbox.imageIndex = log[k - 1].imageIndex
          /\ (k >= n /\ \A j \in (k - n + 1)..k : log[j].op = "next") =>
                /\ lightbox.selectedImage = log[k - n + 1].selectedImage
                /\ lightbox.imageIndex = log[k - n + 1].imageIndex

\* C26: a closed lightbox changes its image or index only by a click on a
\* gallery image, which shows that image and its index; key events leave
\* a closed lightbox closed and its index unchanged.
ClosedLightboxOpensByClickOnly ==
    [][(lightbox.selectedImage = NoImage /\ page' = page
          /\ (lightbox'.selectedImage # NoImage
                \/ lightbox'.imageIndex # lightbox.imageIndex)) =>
         /\ GalleryShown
         /\ lightbox'.log = <<>>
         /\ lightbox'.selectedImage # NoImage
         /\ lightbox'.selectedImage =
               GalleryAt(lightbox.gallery, lightbox'.imageIndex)]_vars

\* A step that is the mount of the detail page.
MountStep == \E slug \in SlugInputs : ProjectPage("es", slug)

TabStep ==
    \A tab \in TabTypes :
        SetActiveTab(tab) =>
            /\ page'.activeTab = tab
            /\ lightbox' = lightbox
            /\ filter' = filter /\ section' = section

LightboxStep ==
    (lightbox' # lightbox /\ ~MountStep) =>
        /\ page' = page
        /\ filter' = filter /\ section' = section

FilterStep ==
    \A i \in 1..Len(categories) :
        SetFilter(categories[i]) =>
            /\ filter' = categories[i]
            /\ page' = page
            /\ lightbox' = lightbox

OtherStep ==
    /\ (page'.activeTab # page.activeTab /\ ~MountStep) =>
          (lightbox' = lightbox /\ filter' = filter)
    /\ filter' # filter => (page' = page /\ lightbox' = lightbox)
    /\ MountStep => page'.activeTab = "overview"

\* C27: the active tab is one of the five tabs, "overview" on mount, and
\* selecting a tab sets exactly it and leaves lightbox and filter as they
\* are; a lightbox action leaves the active tab and the filter as they
\* are; selecting a category sets the filter to exactly it and leaves the
\* page and the lightbox as they are.
UiStateOwnedByOneMachine ==
    /\ [](/\ page.activeTab \in TabTypes
          /\ ~page.mounted => page.activeTab = "overview"
          /\ Includes(categories, filter))
    /\ [][TabStep /\ LightboxStep /\ FilterStep /\ OtherStep]_vars

TabChangedUnderOpenLightbox ==
    /\ LightboxOpen
    /\ lightbox.imageIndex = 1
    /\ page.activeTab = "results"
    /\ filter = "branding"

\* C28: a submit sets submitting with status idle and opens the link
\* built from the field values of that moment; a submitting form
\* eventually is not submitting, shows success and has its four fields
\* empty; success eventually gives way to idle; the status is never
\* "error".
ContactFormSubmission ==
    /\ [](/\ form.submitStatus \in {"idle", "success"}
          /\ form.op = "submit" =>
                /\ form.isSubmitting
                /\ form.submitStatus = "idle"
                /\ form.opened =
                      <<"https://wa.me/">> \o ExampleDigits \o <<"?text=">>
                        \o encodeURIComponent(ContactMessage(form.formData))
          /\ form.op = "submitTimer" =>
                /\ ~form.isSubmitting
                /\ form.submitStatus = "success"
                /\ form.formData = EmptyFormData)
    /\ (form.isSubmitting ~>
            (~form.isSubmitting /\ form.submitStatus = "success"
                /\ form.formData = EmptyFormData))
    /\ (form.submitStatus = "success" ~> form.submitStatus = "idle")

ContactFormSucceeded ==
    /\ form.op = "submitTimer"
    /\ form.submitStatus = "success"
    /\ form.submitted.name = <<"B">>
    /\ form.formData = EmptyFormData
    /\ form.submits = 2

\* C29: no timer of an earlier submission clears the success status of a
\* later one, no timer wipes fields typed after the submit, and no timer
\* callback runs after the section is unmounted.
ContactTimersIsolated ==
    /\ ~form.clearedOther
    /\ ~form.wipedTyped
    /\ ~form.afterUnmount

\* C23: the deleting flag becomes true only when the displayed text equals
\* the full current target, never while the target is partially typed, and
\* it becomes false only when the text has been deleted to the empty string.
DeletingStartStep ==
    (cycler.mounted /\ ~cycler.isDeleting /\ cycler'.isDeleting) =>
        /\ cycler.currentText = TargetText
        /\ cycler'.currentText = cycler.currentText

DeletingEndStep ==
    (cycler.mounted /\ cycler.isDeleting /\ ~cycler'.isDeleting) =>
        /\ cycler.currentText = <<>>
        /\ cycler'.currentText = <<>>

DeletingOnlyAtFullTarget ==
    [][DeletingStartStep /\ DeletingEndStep]_vars

\* C30: a request for a locale that the sitemap, the static parameters or
\* the header language switcher advertise is matched by the middleware and
\* rendered by the locale layout.
AdvertisedLocalesAccepted ==
    (route.requested /\ route.locale \in AdvertisedLocales) =>
        /\ MatcherMatches(route.locale)
        /\ route.layout
        /\ route.served = route.locale

====
